---- MODULE Spec2Model ----
(***************************************************************************)
(* A model of the prompt-assembly and few-shot example-selection logic of  *)
(* the quickstart agents:                                                   *)
(*   - PromptTemplateSystem.build_prompt   (prompt_templates.py)            *)
(*   - ExampleSelector.select_examples     (support_classifier/agent.py,    *)
(*     traigent_benchmark_cli.py, livebench_competition_math/agent.py)      *)
(*   - format_answer_for_livebench         (livebench_competition_math/     *)
(*     agent.py)                                                            *)
(* Python strings are TLA+ strings; Optional[str] is a sequence of length   *)
(* 0 (None) or 1 (the string).                                              *)
(***************************************************************************)
EXTENDS Integers, Sequences, FiniteSets, TLC

VARIABLES
    library_writes,       \* the items assigned in the PromptTemplateSystem's seven
                          \* dicts since __init__ filled them: dict -> key -> text
    args,                 \* the arguments of the last build_prompt call
    result,               \* what the last build_prompt call returned
    called,               \* TRUE once build_prompt has been called
    impl,                 \* which ExampleSelector class the selector is
    dataset,              \* self.dataset of the ExampleSelector
    pc,                   \* where select_examples stands: idle, pick, fill, difficulty, done
    k,                    \* select_examples' argument k
    strategy,             \* select_examples' argument strategy
    groups,               \* the list categories / tasks built from a set
    idx,                  \* the loop index i (0-based, as in the code)
    selected,             \* the list selected: positions of dataset, in pick order
    outcome,              \* "none" while running, then "returned" or "raised"
    response,             \* format_answer_for_livebench's argument response
    answer_format,        \* format_answer_for_livebench's argument answer_format
    answer,               \* what the last format_answer_for_livebench call returned
    fpc,                  \* "idle", or "done" when a format call has returned,
                          \* "raised" when it has raised
    rng,                  \* the state of the generator behind random.sample and
                          \* random.choice: one generator for the whole process
    calls,                \* the call each thread is in: thread -> its frame
    sparams,              \* solve_livebench_math's arguments
    eff,                  \* the prompt parameters it passes to build_prompt
    few_shot_examples,    \* the examples select_examples gave it: pool positions
    messages,             \* the conversation it hands to the model
    content,              \* the model's reply
    solved,               \* what solve_livebench_math returned
    spc,                  \* "idle", "done" (returned) or "raised"
    self_examples,        \* DatasetManager.examples
    total,                \* sample_examples' total: None or a number
    sample_strategy,      \* sample_examples' strategy
    sampled,              \* what sample_examples returned: positions of self_examples
    dpc,                  \* "idle", "done" (returned) or "raised"
    cli_args,             \* run_optimization's args and what its collaborators will do
    runs,                 \* how many times run_optimization was entered
    files,                \* the temporary dataset files that exist
    dataset_file,         \* run_optimization's dataset_file: None or a file
    algorithm,            \* run_optimization's algorithm
    max_trials,           \* run_optimization's max_trials
    exec_config,          \* the execution config: None or [algorithm, max_trials]
    decorator_max_trials, \* max_trials given to traigent.optimize: None or a number
    optimize_max_trials,  \* max_trials given to .optimize(): None or a number
    exit_code,            \* "none", "0", "1", or "raised" for an exception
    cpc                   \* where run_optimization is

promptvars == <<library_writes, args, result, called>>
selvars == <<impl, dataset, pc, k, strategy, groups, idx, selected, outcome>>
fmtvars == <<response, answer_format, answer, fpc>>
concvars == <<rng, calls>>
\* the variables of the components modelled after the first three
solvevars == <<sparams, eff, few_shot_examples, messages, content, solved, spc>>
datavars == <<self_examples, total, sample_strategy, sampled, dpc>>
clivars == <<cli_args, runs, files, dataset_file, algorithm, max_trials, exec_config,
             decorator_max_trials, optimize_max_trials, exit_code, cpc>>
restvars == <<concvars, solvevars, datavars, clivars>>
notclivars == <<promptvars, selvars, fmtvars, concvars, solvevars, datavars>>
notconcvars == <<promptvars, selvars, fmtvars, solvevars, datavars, clivars>>
notsolvevars == <<promptvars, selvars, fmtvars, concvars, datavars, clivars>>
notdatavars == <<promptvars, selvars, fmtvars, concvars, solvevars, clivars>>
vars == <<promptvars, selvars, fmtvars, restvars>>

\* the threads that call the three functions on the same instances
Threads == {1, 2}
\* the frame of a thread that is in no call
NoCall == [pc |-> "idle", fn |-> "none", k |-> 0, seen |-> 0, selected |-> <<>>, text |-> ""]
ConcIdle == rng = 0 /\ calls = [t \in Threads |-> NoCall]
SolveIdle ==
    /\ sparams = <<>> /\ eff = <<>> /\ few_shot_examples = <<>> /\ messages = <<>>
    /\ content = "" /\ solved = "" /\ spc = "idle"
DataIdle ==
    /\ self_examples = <<>> /\ total = <<>> /\ sample_strategy = "" /\ sampled = <<>>
    /\ dpc = "idle"
CliIdle ==
    /\ cli_args = <<>> /\ runs = 0 /\ files = {} /\ dataset_file = <<>>
    /\ algorithm = "" /\ max_trials = 0 /\ exec_config = <<>>
    /\ decorator_max_trials = <<>> /\ optimize_max_trials = <<>>
    /\ exit_code = "none" /\ cpc = "idle"
RestIdle == ConcIdle /\ SolveIdle /\ DataIdle /\ CliIdle

----------------------------------------------------------------------------
(* Python values *)

None == <<>>
Some(s) == <<s>>
\* bool(x) of an Optional[str]: None and "" are falsy
Truthy(o) == o # None /\ o[1] # ""

----------------------------------------------------------------------------
(* str helpers *)

\* s.find(pat) + 1: the first position where pat occurs in s, 0 when absent
Find(s, pat) ==
    LET hits == {i \in 1..(Len(s) - Len(pat) + 1) : SubSeq(s, i, i + Len(pat) - 1) = pat}
    IN IF hits = {} THEN 0 ELSE CHOOSE i \in hits : \A j \in hits : i <= j

\* pat in s
Contains(s, pat) == Find(s, pat) # 0

RECURSIVE FormatDomain(_, _)
\* role_text.format(domain=domain): every {domain} field replaced by str(domain)
FormatDomain(t, d) ==
    LET p == Find(t, "{domain}")
    IN IF p = 0 THEN t
       ELSE SubSeq(t, 1, p - 1) \o d \o FormatDomain(SubSeq(t, p + 8, Len(t)), d)

RECURSIVE Join(_, _)
\* sep.join(parts)
Join(sep, parts) ==
    IF parts = <<>> THEN ""
    ELSE IF Len(parts) = 1 THEN parts[1]
    ELSE parts[1] \o sep \o Join(sep, Tail(parts))

\* filter(None, parts): the non-empty strings of parts, in order
FilterNone(parts) == SelectSeq(parts, LAMBDA p : p # "")

----------------------------------------------------------------------------
(* PromptTemplateSystem.__init__: the fragment library *)

InitSystemRoles ==
    [none |-> "",
     minimal |-> "You are a helpful assistant.",
     standard |-> "You are a helpful assistant that can solve mathematical problems.",
     expert |-> "You are an expert mathematician with deep knowledge of {domain}.",
     olympiad |-> "You are a Mathematical Olympiad champion skilled in competition mathematics.",
     educator |-> "You are a mathematics educator who explains concepts clearly.",
     researcher |-> "You are a mathematics researcher with expertise in {domain}."]

InitReasoningStyles ==
    [none |-> "",
     basic |-> "Think step by step.",
     detailed |-> "Break down the problem systematically. Show all your reasoning.",
     analytical |-> "Analyze the problem structure before solving. Identify key insights.",
     competition |-> "Apply competition problem-solving techniques. Look for elegant solutions.",
     creative |-> "Consider multiple approaches. Think creatively about the problem.",
     rigorous |-> "Provide rigorous mathematical reasoning with clear logical steps."]

InitProblemApproaches ==
    [direct |-> "Solve the problem directly.",
     decompose |-> "Break the problem into smaller subproblems.",
     pattern |-> "Look for patterns and apply known techniques.",
     construct |-> "Build the solution constructively.",
     contradict |-> "Consider proof by contradiction if applicable.",
     induction |-> "Use mathematical induction where appropriate."]

InitAnswerFormats ==
    [minimal |-> "Provide only the final answer.",
     boxed |-> "Box your final answer: \\boxed{answer}",
     explained |-> "Explain your solution, then clearly state the final answer.",
     step_numbered |-> "Number each step of your solution.",
     latex |-> "Use LaTeX notation for all mathematical expressions.",
     competition |-> "Format according to competition standards (AMC: letter, AIME: 3-digit integer)."]

InitNotationStyles ==
    [standard |-> "Use standard mathematical notation.",
     latex |-> "Use LaTeX for all mathematical expressions.",
     plain |-> "Use plain text notation (e.g., x^2 for x squared).",
     verbal |-> "Explain mathematics verbally when possible.",
     mixed |-> "Use the most appropriate notation for clarity."]

InitVerificationStyles ==
    [none |-> "",
     basic |-> "Double-check your answer.",
     thorough |-> "Verify your answer by substitution or alternative method.",
     explain |-> "Explain why your answer is correct.",
     constraints |-> "Verify that your answer satisfies all problem constraints."]

InitCotStyles ==
    [none |-> "",
     basic |-> "Let's think step by step.",
     detailed |-> "I'll work through this problem step by step, showing all reasoning.",
     reflective |-> "Let me think about this problem and reflect on the best approach.",
     structured |-> "I'll solve this using a structured approach: 1) Understand, 2) Plan, 3) Execute, 4) Verify."]

\* a dict as it is now: what __init__ put in it, overlaid with the later writes
Overlaid(initial, writes) ==
    [key \in DOMAIN initial \cup DOMAIN writes |->
        IF key \in DOMAIN writes THEN writes[key] ELSE initial[key]]

\* self.system_roles, self.reasoning_styles, ... as build_prompt reads them
system_roles == Overlaid(InitSystemRoles, library_writes.system_roles)
reasoning_styles == Overlaid(InitReasoningStyles, library_writes.reasoning_styles)
problem_approaches == Overlaid(InitProblemApproaches, library_writes.problem_approaches)
answer_formats == Overlaid(InitAnswerFormats, library_writes.answer_formats)
notation_styles == Overlaid(InitNotationStyles, library_writes.notation_styles)
verification_styles == Overlaid(InitVerificationStyles, library_writes.verification_styles)
cot_styles == Overlaid(InitCotStyles, library_writes.cot_styles)

\* no dict has been written since __init__
NoWrites ==
    [system_roles |-> <<>>, reasoning_styles |-> <<>>, problem_approaches |-> <<>>,
     answer_formats |-> <<>>, notation_styles |-> <<>>, verification_styles |-> <<>>,
     cot_styles |-> <<>>]

\* the default values of build_prompt's parameters
DefaultArgs ==
    [system_role |-> "minimal", reasoning_style |-> "none",
     problem_approach |-> "direct", answer_format |-> "minimal",
     notation_style |-> "standard", verification_style |-> "none",
     cot_style |-> "none", domain |-> None, custom_instructions |-> None]

\* get_preset_templates()
PresetTemplates ==
    [livebench_minimal |->
        [system_role |-> "none", reasoning_style |-> "none", answer_format |-> "minimal"],
     livebench_standard |->
        [system_role |-> "minimal", reasoning_style |-> "basic", answer_format |-> "minimal"],
     competition_solver |->
        [system_role |-> "olympiad", reasoning_style |-> "competition",
         problem_approach |-> "pattern", answer_format |-> "competition",
         verification_style |-> "basic"],
     detailed_educator |->
        [system_role |-> "educator", reasoning_style |-> "detailed",
         problem_approach |-> "decompose", answer_format |-> "explained",
         notation_style |-> "mixed", verification_style |-> "explain",
         cot_style |-> "structured"],
     rigorous_proof |->
        [system_role |-> "expert", reasoning_style |-> "rigorous",
         problem_approach |-> "construct", answer_format |-> "step_numbered",
         notation_style |-> "latex", verification_style |-> "thorough"]]

----------------------------------------------------------------------------
(* PromptTemplateSystem.build_prompt, one operator per "Add ..." block.    *)
(* Each block yields what it appends to prompt_parts: <<>> or <<text>>.    *)

\* RolePart with the "domain and" test dropped: str(domain) is always formatted in
RolePartAlwaysFormat(a) ==
    IF a.system_role \in DOMAIN system_roles
    THEN LET role_text == system_roles[a.system_role]
             formatted == IF Contains(role_text, "{domain}")
                          THEN FormatDomain(role_text,
                                   IF a.domain = None THEN "None" ELSE a.domain[1])
                          ELSE role_text
         IN IF formatted # "" THEN <<formatted>> ELSE <<>>
    ELSE <<>>

\* "Add system role": skipped for an unknown key; {domain} is formatted only
\* when domain is truthy; an empty role text is not appended
RolePart(a) ==
    IF a.system_role \in DOMAIN system_roles
    THEN LET role_text == system_roles[a.system_role]
             formatted == IF Truthy(a.domain) /\ Contains(role_text, "{domain}")
                          THEN FormatDomain(role_text, a.domain[1])
                          ELSE role_text
         IN IF formatted # "" THEN <<formatted>> ELSE <<>>
    ELSE <<>>

\* "Add reasoning style": known key with a non-empty template
ReasoningPart(a) ==
    IF a.reasoning_style \in DOMAIN reasoning_styles
       /\ reasoning_styles[a.reasoning_style] # ""
    THEN <<reasoning_styles[a.reasoning_style]>> ELSE <<>>

\* "Add problem approach": known key
ApproachPart(a) ==
    IF a.problem_approach \in DOMAIN problem_approaches
    THEN <<problem_approaches[a.problem_approach]>> ELSE <<>>

\* "Add notation style": known key
NotationPart(a) ==
    IF a.notation_style \in DOMAIN notation_styles
    THEN <<notation_styles[a.notation_style]>> ELSE <<>>

\* "Add answer format": known key
AnswerPart(a) ==
    IF a.answer_format \in DOMAIN answer_formats
    THEN <<answer_formats[a.answer_format]>> ELSE <<>>

\* "Add verification": known key with a non-empty template
VerificationPart(a) ==
    IF a.verification_style \in DOMAIN verification_styles
       /\ verification_styles[a.verification_style] # ""
    THEN <<verification_styles[a.verification_style]>> ELSE <<>>

\* "Add chain of thought": known key with a non-empty template
CotPart(a) ==
    IF a.cot_style \in DOMAIN cot_styles /\ cot_styles[a.cot_style] # ""
    THEN <<cot_styles[a.cot_style]>> ELSE <<>>

\* "Add custom instructions": appended as given when truthy
CustomPart(a) ==
    IF Truthy(a.custom_instructions) THEN <<a.custom_instructions[1]>> ELSE <<>>

\* PromptParts with the blocks in the order of build_prompt's parameter list
\* (answer_format before notation_style)
PromptPartsParameterOrder(a) ==
    RolePart(a) \o ReasoningPart(a) \o ApproachPart(a) \o AnswerPart(a)
    \o NotationPart(a) \o VerificationPart(a) \o CotPart(a) \o CustomPart(a)

\* prompt_parts at the return statement
PromptParts(a) ==
    RolePart(a) \o ReasoningPart(a) \o ApproachPart(a) \o NotationPart(a)
    \o AnswerPart(a) \o VerificationPart(a) \o CotPart(a) \o CustomPart(a)

\* return " ".join(filter(None, prompt_parts))
build_prompt(a) == Join(" ", FilterNone(PromptParts(a)))

----------------------------------------------------------------------------
(* The calls the model makes *)

UnknownKey == "guru"
SystemRoleKeys == {"none", "minimal", "expert", "researcher", UnknownKey}
ReasoningStyleKeys == {"none", "basic", UnknownKey}
ProblemApproachKeys == {"direct", UnknownKey}
AnswerFormatKeys == {"minimal", "boxed", UnknownKey}
NotationStyleKeys == {"standard", UnknownKey}
VerificationStyleKeys == {"none", "basic", UnknownKey}
CotStyleKeys == {"none", "basic", UnknownKey}
Domains == {None, Some(""), Some("algebra")}
\* "minimal" is free text here that is also a key of the library
CustomInstructions == {None, Some(""), Some(" "), Some("minimal")}

ArgSpace ==
    [system_role : SystemRoleKeys, reasoning_style : ReasoningStyleKeys,
     problem_approach : ProblemApproachKeys, answer_format : AnswerFormatKeys,
     notation_style : NotationStyleKeys, verification_style : VerificationStyleKeys,
     cot_style : CotStyleKeys, domain : Domains,
     custom_instructions : CustomInstructions]

\* PromptTemplateSystem(): the library is built, nothing has been rendered
PromptInit ==
    /\ library_writes = NoWrites
    /\ args = DefaultArgs
    /\ result = ""
    /\ called = FALSE

\* the bundles a caller passes after the bundle a: the same bundle again, or a
\* with one parameter changed (every bundle of ArgSpace follows in some steps)
Neighbours(a) ==
    {a}
    \cup {[a EXCEPT !.system_role = v] : v \in SystemRoleKeys}
    \cup {[a EXCEPT !.reasoning_style = v] : v \in ReasoningStyleKeys}
    \cup {[a EXCEPT !.problem_approach = v] : v \in ProblemApproachKeys}
    \cup {[a EXCEPT !.answer_format = v] : v \in AnswerFormatKeys}
    \cup {[a EXCEPT !.notation_style = v] : v \in NotationStyleKeys}
    \cup {[a EXCEPT !.verification_style = v] : v \in VerificationStyleKeys}
    \cup {[a EXCEPT !.cot_style = v] : v \in CotStyleKeys}
    \cup {[a EXCEPT !.domain = v] : v \in Domains}
    \cup {[a EXCEPT !.custom_instructions = v] : v \in CustomInstructions}

\* BuildPrompt that stores the formatted role text back into self.system_roles
BuildPromptCaching ==
    \E a \in (IF called THEN Neighbours(args) ELSE ArgSpace) :
        /\ args' = a
        /\ result' = build_prompt(a)
        /\ called' = TRUE
        /\ library_writes' =
              IF RolePart(a) # <<>>
              THEN [library_writes EXCEPT !.system_roles =
                       [key \in DOMAIN @ \cup {a.system_role} |->
                           IF key = a.system_role THEN RolePart(a)[1] ELSE @[key]]]
              ELSE library_writes
        /\ UNCHANGED <<selvars, fmtvars, restvars>>

\* one call of build_prompt: reads the library, writes nothing of the instance
BuildPrompt ==
    \E a \in (IF called THEN Neighbours(args) ELSE ArgSpace) :
        /\ args' = a
        /\ result' = build_prompt(a)
        /\ called' = TRUE
        /\ UNCHANGED <<library_writes, selvars, fmtvars, restvars>>

\* no selector is at work in the runs of build_prompt
\* no format_answer_for_livebench call has been made
FormatIdle == response = "" /\ answer_format = "" /\ answer = "" /\ fpc = "idle"

SelectorIdle ==
    /\ impl = "support" /\ dataset = <<>> /\ pc = "idle" /\ k = 0
    /\ strategy = "random" /\ groups = <<>> /\ idx = 0 /\ selected = <<>>
    /\ outcome = "none"

Init == PromptInit /\ SelectorIdle /\ FormatIdle /\ RestIdle
Next == BuildPrompt
Spec == Init /\ [][Next]_vars

----------------------------------------------------------------------------
(* ExampleSelector: the three classes.  An example is a record; a missing  *)
(* dict key is a missing record field.  selected holds positions of        *)
(* dataset, so that two records with equal fields stay two records.        *)

MaxPool == 3
MaxK == 4

Examples ==
    {[input |-> "q1", output |-> "a", task |-> "t1", difficulty |-> "easy"],
     [input |-> "q2", output |-> "a", task |-> "t2", difficulty |-> "hard"],
     [input |-> "q3", output |-> "b", difficulty |-> "trivial"],
     [input |-> "q4", output |-> "c", task |-> "t1"]}

Pools == UNION {[1..n -> Examples] : n \in 0..MaxPool}
Impls == {"support", "cli", "livebench"}
Strategies == {"random", "diverse", "similar", "difficulty_progression", "by_length"}

Min(a, b) == IF a <= b THEN a ELSE b
Range(s) == {s[j] : j \in DOMAIN s}
\* the sequences that list every element of S once
Orderings(S) == {s \in [1..Cardinality(S) -> S] : \A a, b \in DOMAIN s : a # b => s[a] # s[b]}

\* ex.get(key): None for a missing key
Get(ex, key) == IF key \in DOMAIN ex THEN Some(ex[key]) ELSE None
\* ex.get(key, default)
GetOr(ex, key, default) == IF key \in DOMAIN ex THEN ex[key] ELSE default

\* random.sample(population, n) raises ValueError for n < 0 or n > len(population)
SampleRaises(population, n) == n < 0 \/ n > Cardinality(population)
\* what random.sample(population, n) can return: n distinct members, in any order
Samples(population, n) ==
    IF n = 0 THEN {<<>>}
    ELSE {s \in [1..n -> population] : \A a, b \in 1..n : a # b => s[a] # s[b]}

\* NotInSelected without the "if ex not in selected" filter
NotInSelectedUnfiltered(sel) == DOMAIN dataset

\* [ex for ex in self.dataset if ex not in selected], as positions;
\* "not in" compares dicts by their contents
NotInSelected(sel) == {j \in DOMAIN dataset : \A h \in Range(sel) : dataset[h] # dataset[j]}

\* EarlyReturn with "k == 0" for "k <= 0"
EarlyReturnZeroOnly(kk) ==
    IF impl = "livebench" THEN kk = 0 \/ dataset = <<>> ELSE kk = 0

\* the guard in front of every strategy: "if k <= 0" in the support and CLI
\* classes, "if k <= 0 or not self.dataset" in the LiveBench class
EarlyReturn(kk) ==
    IF impl = "livebench" THEN kk <= 0 \/ dataset = <<>> ELSE kk <= 0

\* set(ex['output'] for ex in self.dataset) / set(ex.get('task', '') ...)
GroupKeys ==
    IF impl = "livebench" THEN {GetOr(dataset[j], "task", "") : j \in DOMAIN dataset}
    ELSE {dataset[j].output : j \in DOMAIN dataset}

\* the labels listed from the hardest down
DifficultiesHardestFirst == <<"expert", "hard", "medium", "easy">>

Difficulties == <<"easy", "medium", "hard", "expert">>

SelectorInit ==
    /\ impl \in Impls
    /\ dataset \in Pools
    /\ pc = "idle" /\ k = 0 /\ strategy = "random" /\ groups = <<>> /\ idx = 0
    /\ selected = <<>> /\ outcome = "none"

\* return random.sample(self.dataset, min(k, len(self.dataset)))
ReturnRandomSample ==
    LET n == Min(k', Len(dataset))
    IN /\ groups' = <<>> /\ idx' = 0 /\ pc' = "done"
       /\ IF SampleRaises(DOMAIN dataset, n)
          THEN selected' = <<>> /\ outcome' = "raised"
          ELSE selected' \in Samples(DOMAIN dataset, n) /\ outcome' = "returned"

\* Branch with "similar" sent to the per-category selection
BranchSimilarByCategory(st) ==
    IF st \in {"diverse", "similar"} THEN "diverse"
    ELSE IF st = "difficulty_progression" /\ impl # "livebench" THEN "difficulty"
    ELSE "sample"

\* the arm of the if / elif chain a strategy name takes: "random", "similar"
\* and the final else all return random.sample(...); the LiveBench class has
\* no "difficulty_progression" arm
Branch(st) ==
    IF st = "random" THEN "sample"
    ELSE IF st = "diverse" THEN "diverse"
    ELSE IF st = "similar" THEN "sample"
    ELSE IF st = "difficulty_progression" /\ impl # "livebench" THEN "difficulty"
    ELSE "sample"

\* select_examples is entered: the guard, then the strategy's first statements.
\* list(set(...)) lists the set in an order the hash seed decides.
Enter ==
    /\ pc = "idle"
    /\ k' \in (0 - 1)..MaxK
    /\ strategy' \in Strategies
    /\ UNCHANGED <<impl, dataset, promptvars, fmtvars, restvars>>
    /\ IF EarlyReturn(k')
       THEN /\ selected' = <<>> /\ outcome' = "returned" /\ pc' = "done"
            /\ groups' = <<>> /\ idx' = 0
       ELSE IF Branch(strategy') = "diverse"
       THEN /\ groups' \in Orderings(GroupKeys)
            /\ selected' = <<>> /\ idx' = 0 /\ outcome' = "none" /\ pc' = "pick"
       ELSE IF Branch(strategy') = "difficulty"
       THEN /\ groups' = <<>> /\ selected' = <<>> /\ idx' = 0 /\ outcome' = "none"
            /\ pc' = "difficulty"
       ELSE ReturnRandomSample

\* PickCategory with the break one turn early ("if i >= k - 1")
PickCategoryBreakEarly ==
    /\ pc = "pick" /\ impl # "livebench"
    /\ UNCHANGED <<impl, dataset, k, strategy, groups, outcome, promptvars, fmtvars, restvars>>
    /\ IF idx < Len(groups) /\ idx < k - 1
       THEN LET cat_examples == {j \in DOMAIN dataset : dataset[j].output = groups[idx + 1]}
            IN /\ IF cat_examples # {}
                  THEN \E j \in cat_examples : selected' = Append(selected, j)
                  ELSE selected' = selected
               /\ idx' = idx + 1 /\ pc' = "pick"
       ELSE /\ pc' = "fill" /\ UNCHANGED <<idx, selected>>

\* support / CLI, "diverse": one turn of "for i, category in enumerate(categories)"
PickCategory ==
    /\ pc = "pick" /\ impl # "livebench"
    /\ UNCHANGED <<impl, dataset, k, strategy, groups, outcome, promptvars, fmtvars, restvars>>
    /\ IF idx < Len(groups) /\ idx < k
       THEN LET cat_examples == {j \in DOMAIN dataset : dataset[j].output = groups[idx + 1]}
            IN /\ IF cat_examples # {}
                  THEN \E j \in cat_examples : selected' = Append(selected, j)
                  ELSE selected' = selected
               /\ idx' = idx + 1 /\ pc' = "pick"
       ELSE /\ pc' = "fill" /\ UNCHANGED <<idx, selected>>

\* FillFromPool drawing from the pool after self.dataset.reverse()
FillFromPoolReversing ==
    /\ pc = "fill" /\ impl # "livebench"
    /\ UNCHANGED <<impl, k, strategy, groups, idx, promptvars, fmtvars, restvars>>
    /\ dataset' = [j \in DOMAIN dataset |-> dataset[Len(dataset) + 1 - j]]
    /\ LET remaining == k - Len(selected)
           pool == NotInSelected(selected)
       IN IF remaining > 0
          THEN \E s \in Samples(pool, Min(remaining, Cardinality(pool))) :
                   selected' = selected \o s
          ELSE selected' = selected
    /\ outcome' = "returned" /\ pc' = "done"

\* support / CLI, "diverse": "Fill remaining with random" and the return
FillFromPool ==
    /\ pc = "fill" /\ impl # "livebench"
    /\ UNCHANGED <<impl, dataset, k, strategy, groups, idx, promptvars, fmtvars, restvars>>
    /\ LET remaining == k - Len(selected)
           pool == NotInSelected(selected)
       IN IF remaining > 0
          THEN \E s \in Samples(pool, Min(remaining, Cardinality(pool))) :
                   selected' = selected \o s
          ELSE selected' = selected
    /\ outcome' = "returned" /\ pc' = "done"

\* support / CLI, "difficulty_progression": one turn of "for difficulty in
\* difficulties", and "return selected[:k]" at the break or after the last turn
DifficultyStep ==
    /\ pc = "difficulty"
    /\ UNCHANGED <<impl, dataset, k, strategy, groups, promptvars, fmtvars, restvars>>
    /\ IF idx < Len(Difficulties) /\ Len(selected) < k
       THEN LET examples == {j \in DOMAIN dataset :
                                Get(dataset[j], "difficulty") = Some(Difficulties[idx + 1])}
            IN /\ IF examples # {}
                  THEN \E j \in examples : selected' = Append(selected, j)
                  ELSE selected' = selected
               /\ idx' = idx + 1 /\ pc' = "difficulty" /\ outcome' = outcome
       ELSE /\ selected' = SubSeq(selected, 1, Min(k, Len(selected)))
            /\ idx' = idx /\ outcome' = "returned" /\ pc' = "done"

\* LiveBench, "diverse": one turn of "for i in range(k)"
PickTask ==
    /\ pc = "pick" /\ impl = "livebench"
    /\ UNCHANGED <<impl, dataset, k, strategy, groups, outcome, promptvars, fmtvars, restvars>>
    /\ IF idx < k
       THEN LET task == IF groups # <<>> THEN Some(groups[(idx % Len(groups)) + 1]) ELSE None
                task_examples == {j \in DOMAIN dataset : Get(dataset[j], "task") = task}
                available == task_examples \cap NotInSelected(selected)
            IN /\ IF available # {}
                  THEN \E j \in available : selected' = Append(selected, j)
                  ELSE selected' = selected
               /\ idx' = idx + 1 /\ pc' = "pick"
       ELSE /\ pc' = "fill" /\ UNCHANGED <<idx, selected>>

\* FillRemaining without the "else: break" of an empty 'remaining'
FillRemainingNoBreak ==
    /\ pc = "fill" /\ impl = "livebench"
    /\ UNCHANGED <<impl, dataset, k, strategy, groups, idx, promptvars, fmtvars, restvars>>
    /\ IF Len(selected) < k /\ Len(selected) < Len(dataset)
       THEN /\ IF NotInSelected(selected) # {}
                  THEN \E j \in NotInSelected(selected) : selected' = Append(selected, j)
                  ELSE selected' = selected
            /\ pc' = "fill" /\ outcome' = outcome
       ELSE /\ selected' = selected /\ outcome' = "returned" /\ pc' = "done"

\* LiveBench, "diverse": one turn of the "while len(selected) < k and
\* len(selected) < len(self.dataset)" loop, or the return after it
FillRemaining ==
    /\ pc = "fill" /\ impl = "livebench"
    /\ UNCHANGED <<impl, dataset, k, strategy, groups, idx, promptvars, fmtvars, restvars>>
    /\ IF Len(selected) < k /\ Len(selected) < Len(dataset) /\ NotInSelected(selected) # {}
       THEN /\ \E j \in NotInSelected(selected) : selected' = Append(selected, j)
            /\ pc' = "fill" /\ outcome' = outcome
       ELSE /\ selected' = selected /\ outcome' = "returned" /\ pc' = "done"

\* the caller has the result; the selector waits for the next call
Return ==
    /\ pc = "done"
    /\ pc' = "idle" /\ k' = 0 /\ strategy' = "random" /\ groups' = <<>> /\ idx' = 0
    /\ selected' = <<>> /\ outcome' = "none"
    /\ UNCHANGED <<impl, dataset, promptvars, fmtvars, restvars>>

SelectInit == PromptInit /\ SelectorInit /\ FormatIdle /\ RestIdle
SelectNext ==
    \/ Enter
    \/ PickCategory
    \/ FillFromPool
    \/ DifficultyStep
    \/ PickTask
    \/ FillRemaining
    \/ Return
SelectSpec == SelectInit /\ [][SelectNext]_vars

\* a step of a call in progress: select_examples runs on the caller's thread,
\* statement after statement, until it returns
RunningCall == PickCategory \/ FillFromPool \/ DifficultyStep \/ PickTask \/ FillRemaining
SelectFairSpec == SelectSpec /\ WF_vars(RunningCall)

----------------------------------------------------------------------------
(* str methods and regular expressions used by format_answer_for_livebench, *)
(* over ASCII text                                                          *)

\* the character s[i - 1] of Python, as a string of length 1
Char(s, i) == SubSeq(s, i, i)

AsciiUpper == "ABCDEFGHIJKLMNOPQRSTUVWXYZ"
AsciiLower == "abcdefghijklmnopqrstuvwxyz"
AsciiDigits == "0123456789"
\* the characters str.strip() removes, of those the inputs hold
Whitespace == {" ", "\n", "\t", "\r"}

\* c.lower() and c.upper() of the letters, as tables
LowerOf == [i \in 1..Len(AsciiUpper) |-> Char(AsciiLower, i)]
UpperOf == [i \in 1..Len(AsciiLower) |-> Char(AsciiUpper, i)]
UpperChars == {Char(AsciiUpper, i) : i \in 1..Len(AsciiUpper)}
LowerChars == {Char(AsciiLower, i) : i \in 1..Len(AsciiLower)}
DigitChars == {Char(AsciiDigits, i) : i \in 1..Len(AsciiDigits)}
WordChars == UpperChars \cup LowerChars \cup DigitChars \cup {"_"}

CharLower(c) == IF c \in UpperChars THEN LowerOf[Find(AsciiUpper, c)] ELSE c
CharUpper(c) == IF c \in LowerChars THEN UpperOf[Find(AsciiLower, c)] ELSE c

RECURSIVE lower(_)
\* s.lower(): character by character, the string taken in halves
lower(s) ==
    IF Len(s) = 0 THEN ""
    ELSE IF Len(s) = 1 THEN CharLower(s)
    ELSE lower(SubSeq(s, 1, Len(s) \div 2)) \o lower(SubSeq(s, Len(s) \div 2 + 1, Len(s)))

RECURSIVE upper(_)
\* s.upper(): character by character, the string taken in halves
upper(s) ==
    IF Len(s) = 0 THEN ""
    ELSE IF Len(s) = 1 THEN CharUpper(s)
    ELSE upper(SubSeq(s, 1, Len(s) \div 2)) \o upper(SubSeq(s, Len(s) \div 2 + 1, Len(s)))

RECURSIVE strip(_)
\* s.strip()
strip(s) ==
    IF s = "" THEN ""
    ELSE IF Char(s, 1) \in Whitespace THEN strip(Tail(s))
    ELSE IF Char(s, Len(s)) \in Whitespace THEN strip(SubSeq(s, 1, Len(s) - 1))
    ELSE s

RECURSIVE split(_, _)
\* s.split(sep), sep not empty
split(s, sep) ==
    LET p == Find(s, sep)
    IN IF p = 0 THEN <<s>>
       ELSE <<SubSeq(s, 1, p - 1)>> \o split(SubSeq(s, p + Len(sep), Len(s)), sep)

\* s.startswith(prefix)
startswith(s, prefix) == Len(prefix) <= Len(s) /\ SubSeq(s, 1, Len(prefix)) = prefix

RECURSIVE zfill(_, _)
\* s.zfill(width) of a string without sign
zfill(s, width) == IF Len(s) >= width THEN s ELSE zfill("0" \o s, width)

\* \w: a letter, a digit or the underscore
IsWord(c) == c \in WordChars
IsDigit(c) == c \in DigitChars
\* position i of s holds a word character (no position outside s does)
WordAt(s, i) == i >= 1 /\ i <= Len(s) /\ IsWord(Char(s, i))
\* \b matches in front of position p: a word character on exactly one side
Boundary(s, p) == WordAt(s, p - 1) # WordAt(s, p)

\* re.search(r'\b([A-E])\b', s): group 1 of the leftmost match, None without one
SearchLetter(s) ==
    LET hits == {p \in 1..Len(s) :
                    Boundary(s, p) /\ Contains("ABCDE", Char(s, p)) /\ Boundary(s, p + 1)}
    IN IF hits = {} THEN None
       ELSE Some(Char(s, CHOOSE p \in hits : \A q \in hits : p <= q))

\* the length of the match of \b\d{1,3}\b that starts at p: the longest of
\* 3, 2, 1 digits followed by \b; 0 when there is no match at p
NumberAt(s, p) ==
    LET lens == {n \in 1..3 : /\ p + n - 1 <= Len(s)
                              /\ \A i \in p..(p + n - 1) : IsDigit(Char(s, i))
                              /\ Boundary(s, p) /\ Boundary(s, p + n)}
    IN IF lens = {} THEN 0 ELSE CHOOSE n \in lens : \A m \in lens : m <= n

RECURSIVE FindAllNumbers(_, _)
\* re.findall(r'\b\d{1,3}\b', s), scanning from position p: the leftmost
\* match at or after p, then the matches after its end
FindAllNumbers(s, p) ==
    LET starts == {q \in p..Len(s) : NumberAt(s, q) > 0}
    IN IF starts = {} THEN <<>>
       ELSE LET q == CHOOSE a \in starts : \A b \in starts : a <= b
                n == NumberAt(s, q)
            IN <<SubSeq(s, q, q + n - 1)>> \o FindAllNumbers(s, q + n)

----------------------------------------------------------------------------
(* format_answer_for_livebench *)

\* the phrases of the default extraction, in the order the code tries them
Phrases == <<"answer:", "therefore", "thus", "so">>

LineLimit == 100

\* LineAnswer without the "len(line) < 100" test
LineAnswerAnyLength(line) ==
    IF line # "" /\ ~startswith(line, "#")
    THEN LET found == SelectSeq(Phrases, LAMBDA ph : Contains(lower(line), ph))
         IN IF found # <<>>
            THEN Some(strip(split(lower(line), found[1])[2]))
            ELSE Some(line)
    ELSE None

\* one turn of "for line in reversed(lines)" on the stripped line: Some(value)
\* when the turn returns, None when the scan goes on. A phrase found in
\* line.lower() splits it into at least two parts, so the first phrase found,
\* in the order of Phrases, decides.
LineAnswer(line) ==
    IF line # "" /\ ~startswith(line, "#")
    THEN LET found == SelectSeq(Phrases, LAMBDA ph : Contains(lower(line), ph))
         IN IF found # <<>>
            THEN Some(strip(split(lower(line), found[1])[2]))
            ELSE IF Len(line) < LineLimit THEN Some(line) ELSE None
    ELSE None

RECURSIVE ScanLines(_, _)
\* the turns of "for line in reversed(lines)" from lines[i] back to the first line
ScanLines(lines, i) ==
    IF i = 0 THEN None
    ELSE LET a == LineAnswer(strip(lines[i]))
         IN IF a # None THEN a ELSE ScanLines(lines, i - 1)

\* "Default: try to extract the final answer"
DefaultExtraction(resp) ==
    LET lines == split(strip(resp), "\n")
        a == ScanLines(lines, Len(lines))
    IN IF a # None THEN a[1] ELSE strip(resp)

\* match = re.search(r'\b([A-E])\b', response.upper())
AmcLetter(resp) == SearchLetter(upper(resp))

\* the AIME arm returning the first number found
AimeNumberFirst(numbers) == zfill(numbers[1], 3)

\* numbers[-1].zfill(3)
AimeNumber(numbers) == zfill(numbers[Len(numbers)], 3)

\* "if match:"
MatchFound(m) == m # None

\* the AIME arm without its "if numbers:" test
NumbersFoundUnchecked(numbers) == TRUE

\* "if numbers:"
NumbersFound(numbers) == numbers # <<>>

\* the call raises: match.group(1) on None (AttributeError) or numbers[-1] on
\* an empty list (IndexError), when the test in front lets it through
FormatRaises(resp, fmt) ==
    LET f == lower(fmt)
        numbers == FindAllNumbers(resp, 1)
    IN IF Contains(f, "amc")
       THEN MatchFound(AmcLetter(resp)) /\ AmcLetter(resp) = None
       ELSE IF Contains(f, "aime")
       THEN NumbersFound(numbers) /\ numbers = <<>>
       ELSE FALSE

\* format_answer_for_livebench that takes "competition" for the AMC format
FormatCompetitionAsAmc(resp, fmt) ==
    LET f == lower(fmt)
        numbers == FindAllNumbers(resp, 1)
    IN IF Contains(f, "amc") \/ Contains(f, "competition")
       THEN IF MatchFound(AmcLetter(resp)) THEN AmcLetter(resp)[1]
            ELSE DefaultExtraction(resp)
       ELSE IF Contains(f, "aime")
       THEN IF NumbersFound(numbers) THEN AimeNumber(numbers)
            ELSE DefaultExtraction(resp)
       ELSE IF Contains(f, "proof")
       THEN strip(resp)
       ELSE DefaultExtraction(resp)

format_answer_for_livebench(resp, fmt) ==
    LET f == lower(fmt)
        numbers == FindAllNumbers(resp, 1)
    IN IF Contains(f, "amc")
       THEN IF MatchFound(AmcLetter(resp)) THEN AmcLetter(resp)[1]
            ELSE DefaultExtraction(resp)
       ELSE IF Contains(f, "aime")
       THEN IF NumbersFound(numbers) THEN AimeNumber(numbers)
            ELSE DefaultExtraction(resp)
       ELSE IF Contains(f, "proof")
       THEN strip(resp)
       ELSE DefaultExtraction(resp)

RECURSIVE DigitRun(_)
\* a line of n digits
DigitRun(n) ==
    IF n = 0 THEN ""
    ELSE IF n = 1 THEN "7"
    ELSE DigitRun(n \div 2) \o DigitRun(n - n \div 2)

\* the lines the responses are made of; the last two are one character below
\* the length limit of the default extraction, and at it
ResponseLines ==
    {"The answer is C", "Pick a card: C", "(b)", "42", "x = 7, y = 1234", "pi is 3.14",
     "Step 1...", "Therefore, x = 5", "Answer: X = 12", "# Final", "", "  so 9 ",
     DigitRun(LineLimit - 1), DigitRun(LineLimit)}
MaxLines == 2
\* the responses: one to MaxLines lines
Responses ==
    {Join("\n", ls) : ls \in UNION {[1..n -> ResponseLines] : n \in 1..MaxLines}}
AnswerFormatNames ==
    {"amc_format", "AMC", "aime_format", "amc_or_aime", "proof_format", "minimal"}

\* a call of format_answer_for_livebench, from its arguments to its return
FormatAnswer ==
    /\ fpc = "idle"
    /\ response' \in Responses
    /\ answer_format' \in AnswerFormatNames
    /\ IF FormatRaises(response', answer_format')
       THEN answer' = "" /\ fpc' = "raised"
       ELSE /\ answer' = format_answer_for_livebench(response', answer_format')
            /\ fpc' = "done"
    /\ UNCHANGED <<promptvars, selvars, restvars>>

\* the caller has the answer
FormatReturn ==
    /\ fpc \in {"done", "raised"}
    /\ response' = "" /\ answer_format' = "" /\ answer' = "" /\ fpc' = "idle"
    /\ UNCHANGED <<promptvars, selvars, restvars>>

FormatNext ==
    \/ FormatAnswer
    \/ FormatReturn
FormatSpec == Init /\ [][FormatNext]_vars

----------------------------------------------------------------------------
(* Concurrent callers: several threads call build_prompt, select_examples  *)
(* and format_answer_for_livebench on the same instances. The selectors    *)
(* draw from the random module's functions, which share one generator.     *)

\* the number of states of the generator
RngPeriod == 4
\* the largest k of a concurrent select_examples call
ConcMaxK == 2

\* the pool both threads select from
ConcPool ==
    <<CHOOSE e \in Examples : e.input = "q1", CHOOSE e \in Examples : e.input = "q2",
      CHOOSE e \in Examples : e.input = "q3">>

\* the generator after one draw
RngNext(r) == (r + 1) % RngPeriod

\* the pool position one draw of random.sample takes, the generator being in
\* state r: sample picks among the positions not yet taken
DrawFrom(r, sel) ==
    LET left == {j \in DOMAIN dataset : j \notin Range(sel)}
        nth == (r % Cardinality(left)) + 1
    IN CHOOSE j \in left : Cardinality({h \in left : h <= j}) = nth

\* the arguments the concurrent build_prompt calls use
ConcArgs == {DefaultArgs, [DefaultArgs EXCEPT !.system_role = "expert"]}
\* the arguments the concurrent format_answer_for_livebench calls use
ConcResponses == {"42", "The answer is C"}

ConcInit ==
    /\ PromptInit /\ FormatIdle
    /\ impl = "support" /\ dataset = ConcPool /\ pc = "idle" /\ k = 0
    /\ strategy = "random" /\ groups = <<>> /\ idx = 0 /\ selected = <<>>
    /\ outcome = "none"
    /\ ConcIdle /\ SolveIdle /\ DataIdle /\ CliIdle

\* thread t enters select_examples(k, "random"): past the k <= 0 guard, at
\* random.sample(self.dataset, min(k, len(self.dataset)))
ConcSelect(t) ==
    /\ calls[t].pc = "idle"
    /\ \E kk \in 1..ConcMaxK :
          calls' = [calls EXCEPT ![t] = [pc |-> "sampling", fn |-> "select_examples",
                                         k |-> kk, seen |-> rng, selected |-> <<>>,
                                         text |-> ""]]
    /\ UNCHANGED <<rng, notconcvars>>

\* one draw of thread t's random.sample, or its return when the sample is full
ConcDraw(t) ==
    /\ calls[t].pc = "sampling"
    /\ IF Len(calls[t].selected) < Min(calls[t].k, Len(dataset))
       THEN /\ calls' = [calls EXCEPT ![t].selected = Append(@, DrawFrom(rng, @))]
            /\ rng' = RngNext(rng)
       ELSE /\ calls' = [calls EXCEPT ![t].pc = "done"]
            /\ rng' = rng
    /\ UNCHANGED notconcvars

\* thread t calls build_prompt: it reads the fragment library
ConcBuildPrompt(t) ==
    /\ calls[t].pc = "idle"
    /\ \E a \in ConcArgs :
          calls' = [calls EXCEPT ![t] = [NoCall EXCEPT !.pc = "done", !.fn = "build_prompt",
                                                       !.text = build_prompt(a)]]
    /\ UNCHANGED <<rng, notconcvars>>

\* thread t calls format_answer_for_livebench: it reads its arguments only
ConcFormatAnswer(t) ==
    /\ calls[t].pc = "idle"
    /\ \E r \in ConcResponses :
          calls' = [calls EXCEPT ![t] =
                       [NoCall EXCEPT !.pc = "done", !.fn = "format_answer_for_livebench",
                                      !.text = format_answer_for_livebench(r, "aime_format")]]
    /\ UNCHANGED <<rng, notconcvars>>

\* thread t's caller has the result
ConcReturn(t) ==
    /\ calls[t].pc = "done"
    /\ calls' = [calls EXCEPT ![t] = NoCall]
    /\ UNCHANGED <<rng, notconcvars>>

ConcNext ==
    \/ \E t \in Threads : ConcSelect(t)
    \/ \E t \in Threads : ConcDraw(t)
    \/ \E t \in Threads : ConcBuildPrompt(t)
    \/ \E t \in Threads : ConcFormatAnswer(t)
    \/ \E t \in Threads : ConcReturn(t)
ConcSpec == ConcInit /\ [][ConcNext]_vars

----------------------------------------------------------------------------
(* LiveBenchMathAgent.create_function: solve_livebench_math *)

\* ApplyPreset that leaves verification_style to the caller
ApplyPresetWithoutVerification(a, preset_template) ==
    IF Truthy(preset_template) /\ preset_template[1] \in DOMAIN PresetTemplates
    THEN LET preset_params == PresetTemplates[preset_template[1]]
         IN [a EXCEPT !.system_role = GetOr(preset_params, "system_role", @),
                      !.reasoning_style = GetOr(preset_params, "reasoning_style", @),
                      !.problem_approach = GetOr(preset_params, "problem_approach", @),
                      !.answer_format = GetOr(preset_params, "answer_format", @),
                      !.notation_style = GetOr(preset_params, "notation_style", @),
                      !.cot_style = GetOr(preset_params, "cot_style", @)]
    ELSE a

\* "Handle preset templates": x = preset_params.get('x', x) for the seven
\* parameters, when preset_template is truthy and a key of the presets
ApplyPreset(a, preset_template) ==
    IF Truthy(preset_template) /\ preset_template[1] \in DOMAIN PresetTemplates
    THEN LET preset_params == PresetTemplates[preset_template[1]]
         IN [a EXCEPT !.system_role = GetOr(preset_params, "system_role", @),
                      !.reasoning_style = GetOr(preset_params, "reasoning_style", @),
                      !.problem_approach = GetOr(preset_params, "problem_approach", @),
                      !.answer_format = GetOr(preset_params, "answer_format", @),
                      !.notation_style = GetOr(preset_params, "notation_style", @),
                      !.verification_style = GetOr(preset_params, "verification_style", @),
                      !.cot_style = GetOr(preset_params, "cot_style", @)]
    ELSE a

Message(role, text) == [role |-> role, content |-> text]

\* the body of "for example in few_shot_examples": a user turn from
\* turns[0] or question, an assistant turn from ground_truth, each only when
\* the record has the field
ExampleTurns(msgs, example) ==
    LET withUser ==
            IF "turns" \in DOMAIN example /\ example.turns # <<>>
            THEN Append(msgs, Message("user", example.turns[1]))
            ELSE IF "question" \in DOMAIN example
            THEN Append(msgs, Message("user", example.question))
            ELSE msgs
    IN IF "ground_truth" \in DOMAIN example
       THEN Append(withUser, Message("assistant", example.ground_truth))
       ELSE withUser

RECURSIVE AllExampleTurns(_, _)
\* for example in few_shot_examples, from the first on
AllExampleTurns(msgs, examples) ==
    IF examples = <<>> THEN msgs
    ELSE AllExampleTurns(ExampleTurns(msgs, Head(examples)), Tail(examples))

\* "Build messages": the system message when the prompt is not empty, the
\* example turns, the problem
Conversation(system_prompt, examples, problem) ==
    LET start == IF system_prompt # "" THEN <<Message("system", system_prompt)>> ELSE <<>>
    IN Append(AllExampleTurns(start, examples), Message("user", problem))

\* the LiveBench records the agent's selector holds
SolvePool ==
    <<[turns |-> <<"Q1">>, ground_truth |-> "A1", task |-> "t1"],
      [question |-> "Q2", ground_truth |-> "A2", task |-> "t2"],
      [ground_truth |-> "A3"],
      [turns |-> <<>>, question |-> "Q4"]>>
SolveMaxK == 2
\* the caller's prompt parameters: the defaults, or keys that render nothing,
\* each with every answer_format of the schema and one outside it
SolveArgs ==
    {[b EXCEPT !.answer_format = f] :
        b \in {DefaultArgs,
               [DefaultArgs EXCEPT !.system_role = "none", !.problem_approach = UnknownKey,
                                   !.notation_style = UnknownKey,
                                   !.verification_style = "thorough"]},
        f \in DOMAIN InitAnswerFormats \cup {"amc_format"}}
SolvePresets ==
    {None, Some(""), Some("none"), Some(UnknownKey)} \cup
    {Some(name) : name \in DOMAIN PresetTemplates}
\* the replies of the model; the empty one makes the function raise
Contents == {"", "42", "The answer is C"}
Problem == "What is 6 * 7?"

SolveInit ==
    /\ PromptInit /\ FormatIdle
    /\ impl = "livebench" /\ dataset = SolvePool /\ pc = "idle" /\ k = 0
    /\ strategy = "random" /\ groups = <<>> /\ idx = 0 /\ selected = <<>>
    /\ outcome = "none"
    /\ ConcIdle /\ SolveIdle /\ DataIdle /\ CliIdle

\* one call of solve_livebench_math, with the default few_shot_strategy
\* "similar": select_examples returns [] for k <= 0 or an empty pool, and
\* random.sample(self.dataset, min(k, len(self.dataset))) otherwise
SolveLivebenchMath ==
    /\ spc = "idle"
    /\ \E a \in SolveArgs, preset_template \in SolvePresets,
          few_shot_k \in (0 - 1)..SolveMaxK, reply \in Contents :
          \E examples \in (IF few_shot_k > 0
                           THEN Samples(DOMAIN dataset, Min(few_shot_k, Len(dataset)))
                           ELSE {<<>>}) :
             /\ sparams' = [args |-> a, preset_template |-> preset_template,
                            few_shot_k |-> few_shot_k]
             /\ eff' = ApplyPreset(a, preset_template)
             /\ few_shot_examples' = examples
             /\ messages' = Conversation(build_prompt(eff'),
                                         [i \in DOMAIN examples |-> dataset[examples[i]]],
                                         Problem)
             /\ content' = reply
             /\ IF reply = ""
                THEN solved' = "" /\ spc' = "raised"
                ELSE /\ solved' = format_answer_for_livebench(reply, eff'.answer_format)
                     /\ spc' = "done"
    /\ UNCHANGED notsolvevars

\* the caller has the answer or the exception
SolveReturn ==
    /\ spc \in {"done", "raised"}
    /\ sparams' = <<>> /\ eff' = <<>> /\ few_shot_examples' = <<>> /\ messages' = <<>>
    /\ content' = "" /\ solved' = "" /\ spc' = "idle"
    /\ UNCHANGED notsolvevars

SolveNext ==
    \/ SolveLivebenchMath
    \/ SolveReturn
SolveSpec == SolveInit /\ [][SolveNext]_vars

----------------------------------------------------------------------------
(* DatasetManager.sample_examples *)

\* int(a / b) for b > 0: the quotient cut towards zero
IntDiv(a, b) == IF a >= 0 THEN a \div b ELSE 0 - ((0 - a) \div b)

\* ex.get('difficulty', 'medium')
DifficultyOf(ex) == GetOr(ex, "difficulty", "medium")

RECURSIVE DifficultyKeys(_, _)
\* list(by_difficulty.keys()) for the first n examples: the labels in the
\* order they are first seen
DifficultyKeys(exs, n) ==
    IF n = 0 THEN <<>>
    ELSE LET before == DifficultyKeys(exs, n - 1)
         IN IF DifficultyOf(exs[n]) \in Range(before) THEN before
            ELSE Append(before, DifficultyOf(exs[n]))

\* by_difficulty[diff], as positions
ByDifficulty(exs, diff) == {j \in DOMAIN exs : DifficultyOf(exs[j]) = diff}

\* int(total * len(by_difficulty[diff]) / len(self.examples))
Proportional(exs, n, diff) == IntDiv(n * Cardinality(ByDifficulty(exs, diff)), Len(exs))

RECURSIVE Remaining(_, _, _)
\* "remaining" when the loop reaches the i-th label
Remaining(exs, n, i) ==
    IF i = 1 THEN n
    ELSE Remaining(exs, n, i - 1) - Proportional(exs, n, DifficultyKeys(exs, Len(exs))[i - 1])

\* the count sampled from the i-th label's group: the remainder for the last
\* label, the proportional share for the others, at most the group's size
StratifiedCount(exs, n, i) ==
    LET difficulties == DifficultyKeys(exs, Len(exs))
        count == IF i = Len(difficulties) THEN Remaining(exs, n, i)
                 ELSE Proportional(exs, n, difficulties[i])
    IN Min(count, Cardinality(ByDifficulty(exs, difficulties[i])))

RECURSIVE StratifiedSamples(_, _, _)
\* what "sampled" can be after the loop has run from the i-th label on
StratifiedSamples(exs, n, i) ==
    LET difficulties == DifficultyKeys(exs, Len(exs))
    IN IF i > Len(difficulties) THEN {<<>>}
       ELSE {a \o b : a \in Samples(ByDifficulty(exs, difficulties[i]),
                                     StratifiedCount(exs, n, i)),
                      b \in StratifiedSamples(exs, n, i + 1)}

\* some random.sample of the stratified loop raises
StratifiedRaises(exs, n) ==
    \E i \in DOMAIN DifficultyKeys(exs, Len(exs)) :
        SampleRaises(ByDifficulty(exs, DifficultyKeys(exs, Len(exs))[i]),
                     StratifiedCount(exs, n, i))

\* self.examples[:n]
Prefix(exs, n) ==
    LET len == IF n >= 0 THEN Min(n, Len(exs)) ELSE IF Len(exs) + n > 0 THEN Len(exs) + n ELSE 0
    IN [j \in 1..len |-> j]

\* sample_examples raises: ValueError of random.sample, or unknown strategy
SampleExamplesRaises(exs, tot, strat) ==
    /\ tot # None /\ tot[1] < Len(exs)
    /\ \/ strat = "random" /\ SampleRaises(DOMAIN exs, tot[1])
       \/ strat = "stratified" /\ StratifiedRaises(exs, tot[1])
       \/ strat \notin {"sequential", "random", "stratified"}

\* what sample_examples can return, as positions of self.examples
sample_examples(exs, tot, strat) ==
    IF tot = None \/ tot[1] >= Len(exs) THEN {[j \in DOMAIN exs |-> j]}
    ELSE IF strat = "sequential" THEN {Prefix(exs, tot[1])}
    ELSE IF strat = "random" THEN Samples(DOMAIN exs, tot[1])
    ELSE StratifiedSamples(exs, tot[1], 1)

MaxExamples == 3
\* the datasets: up to MaxExamples examples, each with a difficulty label or
\* without one
LabelledExamples ==
    {[question |-> "q", difficulty |-> d] : d \in {"easy", "medium", "hard"}}
        \cup {[question |-> "q"]}
Datasets == UNION {[1..n -> LabelledExamples] : n \in 0..MaxExamples}
Totals == {None} \cup {Some(n) : n \in (0 - 1)..(MaxExamples + 1)}
SampleStrategies == {"sequential", "random", "stratified", "bogus"}

DataInit ==
    /\ PromptInit /\ SelectorIdle /\ FormatIdle /\ ConcIdle /\ SolveIdle /\ CliIdle
    /\ self_examples \in Datasets
    /\ total = None /\ sample_strategy = "" /\ sampled = <<>> /\ dpc = "idle"

\* one call of sample_examples
SampleExamples ==
    /\ dpc = "idle"
    /\ \E tot \in Totals, strat \in SampleStrategies :
          /\ total' = tot /\ sample_strategy' = strat
          /\ IF SampleExamplesRaises(self_examples, tot, strat)
             THEN sampled' = <<>> /\ dpc' = "raised"
             ELSE /\ sampled' \in sample_examples(self_examples, tot, strat)
                  /\ dpc' = "done"
    /\ UNCHANGED <<self_examples, notdatavars>>

\* the caller has the sample or the exception
SampleReturn ==
    /\ dpc \in {"done", "raised"}
    /\ total' = None /\ sample_strategy' = "" /\ sampled' = <<>> /\ dpc' = "idle"
    /\ UNCHANGED <<self_examples, notdatavars>>

DataNext ==
    \/ SampleExamples
    \/ SampleReturn
DataSpec == DataInit /\ [][DataNext]_vars

----------------------------------------------------------------------------
(* TraiGentCLI.run_optimization and create_optimized_function *)

RECURSIVE Product(_)
\* total_configs: 1 times len(values) for every parameter of param_space
Product(lens) == IF lens = <<>> THEN 1 ELSE Head(lens) * Product(Tail(lens))

\* "Determine algorithm": args.algorithm when truthy, else by total_configs
ChooseAlgorithm(a) ==
    IF Truthy(a.algorithm) THEN a.algorithm[1]
    ELSE IF Product(a.param_space) <= 20 THEN "grid"
    ELSE "random"

\* "... and max_trials": args.max_trials when truthy (not None, not 0),
\* else min(total_configs, 100) for grid and min(10, total_configs) otherwise
ChooseMaxTrials(a) ==
    IF a.max_trials # None /\ a.max_trials[1] # 0 THEN a.max_trials[1]
    ELSE IF ChooseAlgorithm(a) = "grid" THEN Min(Product(a.param_space), 100)
    ELSE Min(10, Product(a.param_space))

\* "Validate max_trials" in create_optimized_function: 10 for a value below 1
Validated(n) == IF n < 1 THEN 10 ELSE n

\* the agent modules: complete, or lacking one of the classes
\* create_optimized_function asks for
AgentModules == {"complete", "no_prompt_builder", "no_example_selector", "no_agent_class"}

MaxRuns == 2
MaxTrialsArg == 2
\* the numbers of values of the parameters in param_space
ParamSpaces == {<<>>, <<2>>, <<3, 7>>, <<5, 5, 5>>}
CliArgs ==
    [max_trials : {None} \cup {Some(n) : n \in (0 - 2)..MaxTrialsArg},
     algorithm : {None, Some("grid"), Some("random"), Some("bayesian")},
     param_space : ParamSpaces,
     agent_module : AgentModules,
     sampling_raises : BOOLEAN,
     optimization_fails : BOOLEAN]

CliInit ==
    /\ PromptInit /\ SelectorIdle /\ FormatIdle /\ ConcIdle /\ SolveIdle /\ DataIdle
    /\ CliIdle

\* run_optimization from its entry to sample_examples: the algorithm and
\* max_trials are chosen, and an exception of sample_examples leaves the
\* function
RunOptimization ==
    /\ cpc = "idle" /\ runs < MaxRuns
    /\ \E a \in CliArgs :
          /\ cli_args' = a
          /\ algorithm' = ChooseAlgorithm(a)
          /\ max_trials' = ChooseMaxTrials(a)
          /\ IF a.sampling_raises
             THEN cpc' = "returned" /\ exit_code' = "raised"
             ELSE cpc' = "sampled" /\ exit_code' = "none"
    /\ runs' = runs + 1
    /\ dataset_file' = None /\ exec_config' = None
    /\ decorator_max_trials' = None /\ optimize_max_trials' = None
    /\ UNCHANGED <<files, notclivars>>

\* dataset_file = create_dataset_file(examples), then exec_config
CreateDatasetFile ==
    /\ cpc = "sampled"
    /\ dataset_file' = Some(runs)
    /\ files' = files \cup {runs}
    /\ exec_config' = Some([algorithm |-> algorithm, max_trials |-> max_trials])
    /\ cpc' = "file_created"
    /\ UNCHANGED <<cli_args, runs, algorithm, max_trials, decorator_max_trials,
                   optimize_max_trials, exit_code, notclivars>>

\* optimized_function = self.create_optimized_function(...): the validated
\* max_trials goes to exec_config and to the decorator; a missing class
\* raises ValueError, which leaves run_optimization
CreateOptimizedFunction ==
    /\ cpc = "file_created"
    /\ exec_config' = Some([exec_config[1] EXCEPT !.max_trials = Validated(@)])
    /\ IF cli_args.agent_module = "complete"
       THEN /\ decorator_max_trials' = Some(Validated(exec_config[1].max_trials))
            /\ cpc' = "built" /\ exit_code' = "none"
       ELSE /\ decorator_max_trials' = None
            /\ cpc' = "returned" /\ exit_code' = "raised"
    /\ UNCHANGED <<cli_args, runs, files, dataset_file, algorithm, max_trials,
                   optimize_max_trials, notclivars>>

\* the try block: optimized_function.optimize(algorithm, max_trials, ...),
\* then the results, or "except Exception" and return 1
Optimize ==
    /\ cpc = "built"
    /\ optimize_max_trials' = Some(max_trials)
    /\ exit_code' = IF cli_args.optimization_fails THEN "1" ELSE "0"
    /\ cpc' = "finally"
    /\ UNCHANGED <<cli_args, runs, files, dataset_file, algorithm, max_trials,
                   exec_config, decorator_max_trials, notclivars>>

\* finally: os.unlink(dataset_file), then the return
Finally ==
    /\ cpc = "finally"
    /\ files' = files \ {dataset_file[1]}
    /\ cpc' = "returned"
    /\ UNCHANGED <<cli_args, runs, dataset_file, algorithm, max_trials, exec_config,
                   decorator_max_trials, optimize_max_trials, exit_code, notclivars>>

\* the caller has the exit code or the exception
CliReturn ==
    /\ cpc = "returned"
    /\ cli_args' = <<>> /\ dataset_file' = None /\ algorithm' = "" /\ max_trials' = 0
    /\ exec_config' = None /\ decorator_max_trials' = None /\ optimize_max_trials' = None
    /\ exit_code' = "none" /\ cpc' = "idle"
    /\ UNCHANGED <<runs, files, notclivars>>

CliNext ==
    \/ RunOptimization
    \/ CreateDatasetFile
    \/ CreateOptimizedFunction
    \/ Optimize
    \/ Finally
    \/ CliReturn
CliSpec == CliInit /\ [][CliNext]_vars

----------------------------------------------------------------------------
(* Properties of build_prompt *)

\* s.strip() for the whitespace the model's inputs hold (spaces)
RECURSIVE Strip(_)
Strip(s) ==
    IF s = "" THEN ""
    ELSE IF Head(s) = " " THEN Strip(Tail(s))
    ELSE IF SubSeq(s, Len(s), Len(s)) = " " THEN Strip(SubSeq(s, 1, Len(s) - 1))
    ELSE s

\* t is what s ends with
EndsWith(s, t) == Len(t) <= Len(s) /\ SubSeq(s, Len(s) - Len(t) + 1, Len(s)) = t
\* t is what s starts with
StartsWith(s, t) == Len(t) <= Len(s) /\ SubSeq(s, 1, Len(t)) = t

\* what each category contributes to the last call, in the category order
\* system_role, reasoning_style, problem_approach, notation_style,
\* answer_format, verification_style, cot_style, custom_instructions;
\* "" for a category that contributes nothing
ContributedTexts ==
    LET TextOf(part) == IF part = <<>> THEN "" ELSE part[1]
    IN <<TextOf(RolePart(args)), TextOf(ReasoningPart(args)), TextOf(ApproachPart(args)),
         TextOf(NotationPart(args)), TextOf(AnswerPart(args)),
         TextOf(VerificationPart(args)), TextOf(CotPart(args)),
         IF Truthy(args.custom_instructions) THEN args.custom_instructions[1] ELSE "">>

RECURSIVE OffsetOf(_, _)
\* where the text of category i starts when the non-empty texts t of the
\* categories before it are laid out in category order, one space after each
OffsetOf(t, i) ==
    IF i = 1 THEN 0
    ELSE OffsetOf(t, i - 1) + (IF t[i - 1] = "" THEN 0 ELSE Len(t[i - 1]) + 1)

OccursAt(text, off) == SubSeq(result, off + 1, off + Len(text)) = text

\* C1: the fragments are rendered in the fixed category order: when two
\* categories both contribute text, the earlier one's text lies in the result
\* wholly before the later one's; a non-empty custom_instructions is the end of
\* the result, verbatim, and is not looked up in the library.
C1_FixedCategoryOrder ==
    called =>
        \A t \in {ContributedTexts} : \A off \in {[i \in 1..8 |-> OffsetOf(t, i)]} :
           /\ \A i \in 1..8 : \A j \in (i + 1)..8 :
                 (t[i] # "" /\ t[j] # "") =>
                     /\ OccursAt(t[i], off[i])
                     /\ OccursAt(t[j], off[j])
                     /\ off[i] + Len(t[i]) < off[j] + 1
           /\ Truthy(args.custom_instructions) =>
                 /\ EndsWith(result, args.custom_instructions[1])
                 /\ \/ result = args.custom_instructions[1]
                    \/ EndsWith(result, " " \o args.custom_instructions[1])

\* C1 witness: a call where notation_style, answer_format and a custom text
\* that is also a library key all contribute
C1_Witness ==
    /\ called
    /\ args.notation_style = "standard" /\ args.answer_format = "boxed"
    /\ args.system_role = "expert" /\ args.cot_style = "basic"
    /\ args.custom_instructions = Some("minimal")
    /\ EndsWith(result, "Let's think step by step. minimal")

\* the categories that are looked up in the library, with their library
Library ==
    [system_role |-> system_roles, reasoning_style |-> reasoning_styles,
     problem_approach |-> problem_approaches, answer_format |-> answer_formats,
     notation_style |-> notation_styles, verification_style |-> verification_styles,
     cot_style |-> cot_styles]

\* C2: an unknown variant key is rendered as the category's default variant:
\* the output for the unknown key equals the output for the default key.
C2_UnknownKeyRendersDefault ==
    called =>
        \A c \in DOMAIN Library :
            args[c] \notin DOMAIN Library[c] =>
                result = build_prompt([args EXCEPT ![c] = DefaultArgs[c]])

\* the bundle of the livebench_minimal preset, every other parameter at its default
LivebenchMinimalArgs ==
    [DefaultArgs EXCEPT
        !.system_role = PresetTemplates.livebench_minimal.system_role,
        !.reasoning_style = PresetTemplates.livebench_minimal.reasoning_style,
        !.answer_format = PresetTemplates.livebench_minimal.answer_format]

\* C3: the livebench_minimal bundle renders exactly the minimal answer_format
\* text and nothing else.
C3_MinimalPresetRendersAnswerFormatOnly ==
    (called /\ args = LivebenchMinimalArgs) => result = "Provide only the final answer."

\* the resolved fragment of each category for the last call, trimmed
TrimmedFragments ==
    LET t == ContributedTexts
    IN <<Strip(t[1]), Strip(t[2]), Strip(t[3]), Strip(t[4]), Strip(t[5]), Strip(t[6]),
         Strip(t[7]),
         IF args.custom_instructions = None THEN "" ELSE Strip(args.custom_instructions[1])>>

\* C4: a category whose fragment is empty after trimming contributes nothing:
\* the result is the surviving trimmed fragments joined by exactly one space.
C4_EmptyFragmentsContributeNothing ==
    called => result = Join(" ", FilterNone(TrimmedFragments))

\* C5: every category of the library has a variant whose template is empty.
C5_EveryCategoryHasEmptyVariant ==
    \A c \in DOMAIN Library : \E v \in DOMAIN Library[c] : Library[c][v] = ""

\* the role template with the placeholder replaced by d
WithDomain(template, d) ==
    LET p == Find(template, "{domain}")
    IN SubSeq(template, 1, p - 1) \o d \o SubSeq(template, p + 8, Len(template))

\* C6: a role template with {domain} is rendered with the domain in place of
\* the placeholder when a non-empty domain is given, and with the literal
\* {domain} when domain is None or empty; a role without the placeholder is
\* rendered as for no domain.
C6_DomainPlaceholder ==
    (called /\ args.system_role \in DOMAIN InitSystemRoles) =>
        LET template == InitSystemRoles[args.system_role]
        IN IF Contains(template, "{domain}")
           THEN IF Truthy(args.domain)
                THEN /\ StartsWith(result, WithDomain(template, args.domain[1]))
                     /\ ~StartsWith(result, template)
                ELSE StartsWith(result, template)
           ELSE result = build_prompt([args EXCEPT !.domain = None])

\* C6 witness: both cases of a placeholder role have been rendered
C6_Witness ==
    /\ called
    /\ args.system_role = "researcher"
    /\ \/ args.domain = Some("algebra")
          /\ StartsWith(result, "You are a mathematics researcher with expertise in algebra.")
       \/ args.domain = None
          /\ StartsWith(result, "You are a mathematics researcher with expertise in {domain}.")
    /\ args.reasoning_style = "basic"

\* C7: build_prompt is deterministic and writes nothing: a call with the
\* arguments of the call before it returns the same string, and no call
\* changes the fragment library.
C7_Deterministic ==
    [][/\ (called /\ args' = args) => result' = result
       /\ library_writes' = library_writes]_vars

\* C7 witness: a bundle has been rendered that a call before it could have
\* left its mark on (a placeholder role with a domain)
C7_Witness ==
    /\ called
    /\ args.system_role = "expert" /\ args.domain = Some("algebra")
    /\ args.custom_instructions = Some(" ")
    /\ system_roles = InitSystemRoles

----------------------------------------------------------------------------
(* Properties of select_examples *)

Returned == pc = "done" /\ outcome = "returned"

\* C8: for every k <= 0, whatever the strategy and the pool, each of the three
\* selectors returns the empty list and does not raise.
C8_NonPositiveKReturnsEmpty ==
    (pc = "done" /\ k <= 0) => (outcome = "returned" /\ selected = <<>>)

\* C8 witness: a negative k with an unknown strategy on the empty pool has
\* returned, in a class whose guard does not test the pool
C8_Witness ==
    /\ pc = "done" /\ k < 0 /\ strategy = "by_length" /\ impl = "cli"
    /\ dataset = <<>> /\ outcome = "returned"

\* C9: the returned list is never longer than min(k, |pool|) and holds only
\* records of the pool (for k < 0 the list is empty: a length is not negative).
C9_AtMostMinKPool ==
    Returned =>
        /\ Len(selected) <= (IF k < 0 THEN 0 ELSE Min(k, Len(dataset)))
        /\ Range(selected) \subseteq DOMAIN dataset

\* C9 witness: "diverse" was asked for more examples than the pool holds and
\* has returned the whole pool
C9_Witness ==
    /\ Returned /\ strategy = "diverse" /\ k > Len(dataset)
    /\ Len(selected) = Len(dataset) /\ Len(dataset) = 3

\* C10: for 0 < k <= |pool|, "random" and "diverse" return exactly k examples,
\* no pool record twice, also when pool records have equal field values.
C10_RandomDiverseExactlyK ==
    (pc = "done" /\ strategy \in {"random", "diverse"} /\ 0 < k /\ k <= Len(dataset)) =>
        /\ outcome = "returned"
        /\ Len(selected) = k
        /\ \A a, b \in DOMAIN selected : a # b => selected[a] # selected[b]

\* the group an example falls in: its 'output' in the support and CLI classes,
\* ex.get('task', '') in the LiveBench class
GroupOf(ex) == IF impl = "livebench" THEN GetOr(ex, "task", "") ELSE ex.output

\* the groups the returned examples come from
GroupsReturned == {GroupOf(dataset[selected[a]]) : a \in DOMAIN selected}

\* C11: support / CLI selector, "diverse": when k is at least the number of
\* distinct 'output' values of the pool, every output value has an example in
\* the result.
C11_DiverseCoversEveryOutput ==
    (Returned /\ impl # "livebench" /\ strategy = "diverse"
        /\ k >= Cardinality({dataset[j].output : j \in DOMAIN dataset})) =>
        \A j \in DOMAIN dataset : \E a \in DOMAIN selected :
            dataset[selected[a]].output = dataset[j].output

\* C11 witness: a pool of three output values, k = 3, all three returned
C11_Witness ==
    /\ Returned /\ impl = "support" /\ strategy = "diverse" /\ k = 3
    /\ Cardinality({dataset[j].output : j \in DOMAIN dataset}) = 3
    /\ Len(selected) = 3

\* C12: LiveBench selector, "diverse": when k is at least the number of
\* distinct groups (records without 'task' forming one group), every group,
\* the no-'task' group included, has an example in the result.
C12_DiverseCoversEveryTaskGroup ==
    (Returned /\ impl = "livebench" /\ strategy = "diverse"
        /\ k >= Cardinality({GroupOf(dataset[j]) : j \in DOMAIN dataset})) =>
        \A j \in DOMAIN dataset : GroupOf(dataset[j]) \in GroupsReturned

\* the distinct group keys of pool[1..n] in first-seen order
RECURSIVE FirstSeenGroups(_)
FirstSeenGroups(n) ==
    IF n = 0 THEN <<>>
    ELSE LET before == FirstSeenGroups(n - 1)
             g == GroupOf(dataset[n])
         IN IF g \in Range(before) THEN before ELSE Append(before, g)

\* C13: "diverse" visits the groups in first-seen pool order, so with
\* 0 < k < number of groups the groups of the result are exactly the first k
\* distinct group keys of the pool.
C13_DiverseFirstSeenGroupOrder ==
    (Returned /\ strategy = "diverse" /\ k > 0
        /\ k < Len(FirstSeenGroups(Len(dataset)))) =>
        GroupsReturned = Range(SubSeq(FirstSeenGroups(Len(dataset)), 1, k))

\* C14: "diverse" terminates for every pool and k: a call that entered the
\* per-group loop or the fill step reaches its return, also when k exceeds the
\* pool and when the pool holds equal-valued records.
C14_DiverseTerminates ==
    (strategy = "diverse" /\ pc \in {"pick", "fill"}) ~> (pc = "done")

\* C14 witness: a LiveBench call with k above the pool size returned with
\* fewer examples than the pool holds (equal-valued records left nothing to pick)
C14_Witness ==
    /\ Returned /\ impl = "livebench" /\ strategy = "diverse"
    /\ k > Len(dataset) /\ Len(selected) < Len(dataset)

\* the labels easy, medium, hard, expert, in that order, that some pool record carries
LabelsInPool ==
    SelectSeq(<<"easy", "medium", "hard", "expert">>,
              LAMBDA d : \E j \in DOMAIN dataset : Get(dataset[j], "difficulty") = Some(d))

\* C15: support / CLI selector, "difficulty_progression": the result holds one
\* example for each of the first min(k, n) labels among easy, medium, hard,
\* expert that occur in the pool (n of them), in that order, and nothing else:
\* no backfill up to k, no record of another difficulty value.
C15_DifficultyProgression ==
    (Returned /\ impl # "livebench" /\ strategy = "difficulty_progression" /\ k > 0) =>
        /\ Len(selected) = Min(k, Len(LabelsInPool))
        /\ \A a \in DOMAIN selected :
              Get(dataset[selected[a]], "difficulty") = Some(LabelsInPool[a])

\* C15 witness: a pool of three records with the labels easy, hard and another
\* value, k = 3: two examples returned, easy before hard
C15_Witness ==
    /\ Returned /\ impl = "cli" /\ strategy = "difficulty_progression" /\ k = 3
    /\ Len(dataset) = 3 /\ Len(LabelsInPool) = 2
    /\ \E j \in DOMAIN dataset : Get(dataset[j], "difficulty") = Some("trivial")
    /\ Len(selected) = 2

\* the strategy names that are neither "random" nor select by group or label:
\* "similar", a name no class knows, and for LiveBench "difficulty_progression"
RandomLikeStrategies ==
    {"similar", "by_length"} \cup
        (IF impl = "livebench" THEN {"difficulty_progression"} ELSE {})

\* a sequence of n distinct pool positions
IsSampleOf(res, n) ==
    /\ Len(res) = n
    /\ \A a, b \in DOMAIN res : a # b => res[a] # res[b]

\* the call select_examples(kk, st) can end with the outcome out and the result res
CallCanEnd(st, kk, res, out) ==
    ENABLED (k' = kk /\ strategy' = st /\ selected' = res /\ outcome' = out /\ Enter)

\* every list of pool positions no longer than the pool
ResultCandidates == UNION {[1..n -> DOMAIN dataset] : n \in 0..Len(dataset)}

\* C16: "similar" and every unrecognised strategy never raise, return a sample
\* without replacement of min(k, |pool|) pool records, and can return exactly
\* the results "random" can return for the same pool and k.
C16_SimilarAndUnknownAreRandom ==
    /\ (pc = "done" /\ strategy \in RandomLikeStrategies) =>
          /\ outcome = "returned"
          /\ k > 0 => IsSampleOf(selected, Min(k, Len(dataset)))
    /\ pc = "idle" =>
          \A st \in RandomLikeStrategies : \A kk \in (0 - 1)..MaxK :
              /\ ~CallCanEnd(st, kk, <<>>, "raised")
              /\ \A res \in ResultCandidates :
                    CallCanEnd(st, kk, res, "returned")
                        <=> CallCanEnd("random", kk, res, "returned")

\* C16 witness: an unrecognised strategy returned two of three pool records
C16_Witness ==
    /\ Returned /\ strategy = "by_length" /\ k = 2 /\ Len(dataset) = 3
    /\ IsSampleOf(selected, 2)

\* C17: no step of select_examples adds, removes, reorders or modifies the
\* pool's records: the pool stays the list the selector was created with.
C17_PoolNeverChanges == [][dataset' = dataset]_vars

\* C17 witness: a "diverse" call that went through the per-group loop and the
\* fill step has returned every record of a three-record pool
C17_Witness ==
    /\ Returned /\ strategy = "diverse" /\ Len(dataset) = 3 /\ Len(selected) = 3
    /\ \E a \in DOMAIN selected : selected[a] # a

----------------------------------------------------------------------------
(* Properties of format_answer_for_livebench *)

FormatReturned == fpc = "done"

\* the positions of raw_text that hold a standalone uppercase letter A-E: no
\* word character on either side
StandaloneLetters(s) ==
    {p \in 1..Len(s) :
        Contains("ABCDE", Char(s, p)) /\ ~WordAt(s, p - 1) /\ ~WordAt(s, p + 1)}

\* C18: for an answer_format containing "amc" in any case, when raw_text has a
\* standalone uppercase letter A-E the answer is the first of them; a
\* standalone lowercase letter in front of it is not taken.
C18_AmcFirstUppercaseLetter ==
    (FormatReturned /\ Contains(lower(answer_format), "amc")
        /\ StandaloneLetters(response) # {}) =>
        answer = Char(response, CHOOSE p \in StandaloneLetters(response) :
                                    \A q \in StandaloneLetters(response) : p <= q)

\* the standalone integer tokens of one to three digits, as <<first, last>>
\* positions: digits only, no word character on either side
StandaloneIntegers(s) ==
    {t \in UNION {{<<i, j>> : j \in i..Min(i + 2, Len(s))} : i \in 1..Len(s)} :
        /\ \A i \in t[1]..t[2] : IsDigit(Char(s, i))
        /\ ~WordAt(s, t[1] - 1) /\ ~WordAt(s, t[2] + 1)}

\* a token of one to three digits with zeros in front, three characters in all
PaddedToThree(tok) ==
    IF Len(tok) = 1 THEN "00" \o tok ELSE IF Len(tok) = 2 THEN "0" \o tok ELSE tok

\* C19: for an answer_format containing "aime" and not "amc", when raw_text
\* holds a standalone integer token of one to three digits the answer is the
\* last such token, zero-padded on the left to three digits; a run of four or
\* more digits is no token.
C19_AimeLastNumberPadded ==
    (FormatReturned /\ Contains(lower(answer_format), "aime")
        /\ ~Contains(lower(answer_format), "amc")
        /\ StandaloneIntegers(response) # {}) =>
        LET last == CHOOSE t \in StandaloneIntegers(response) :
                        \A u \in StandaloneIntegers(response) : u[1] <= t[1]
        IN /\ answer = PaddedToThree(SubSeq(response, last[1], last[2]))
           /\ Len(answer) = 3

\* C19 witness: "x = 7, y = 1234" gives "007", the four-digit run is passed over
C19_Witness ==
    /\ FormatReturned /\ answer_format = "aime_format"
    /\ response = "x = 7, y = 1234" /\ answer = "007"

\* C20: with the answer_format "minimal" the response "Step 1..." /
\* "Therefore, x = 5" gives exactly "x = 5": neither the keyword nor the comma
\* after it is part of the answer.
C20_ThereforeExample ==
    (FormatReturned /\ answer_format = "minimal"
        /\ response = "Step 1...\nTherefore, x = 5") =>
        answer = "x = 5"

\* the default extraction is the rule that applies: the format names none of
\* amc, aime, proof, or the amc search finds no letter, or the aime search no number
DefaultApplies ==
    LET f == lower(answer_format)
    IN IF Contains(f, "amc") THEN StandaloneLetters(upper(response)) = {}
       ELSE IF Contains(f, "aime") THEN StandaloneIntegers(response) = {}
       ELSE ~Contains(f, "proof")

\* the lines of raw_text, each trimmed
TrimmedLines ==
    LET lines == split(strip(response), "\n")
    IN [i \in DOMAIN lines |-> strip(lines[i])]

\* the lines that are neither blank nor start with '#'
ConsideredLines ==
    {i \in DOMAIN TrimmedLines :
        TrimmedLines[i] # "" /\ ~StartsWith(TrimmedLines[i], "#")}

\* the places of a line where a keyword phrase ends, the keyword matched in any case
KeywordEnds(line) ==
    {e \in 1..(Len(line) + 1) :
        \E ph \in {"answer:", "therefore", "thus", "so"} :
            e > Len(ph) /\ lower(SubSeq(line, e - Len(ph), e - 1)) = ph}

\* C21: in default extraction, when the last line that is neither blank nor a
\* '#' line contains a keyword phrase (in any case), the answer is the rest of
\* that line after the keyword, trimmed, in the letter case of raw_text.
C21_KeywordRemainderCasePreserved ==
    (FormatReturned /\ DefaultApplies /\ ConsideredLines # {}) =>
        LET last == TrimmedLines[CHOOSE i \in ConsideredLines :
                                     \A j \in ConsideredLines : j <= i]
        IN KeywordEnds(last) # {} =>
              \E e \in KeywordEnds(last) : answer = strip(SubSeq(last, e, Len(last)))

\* the considered lines that give a result: a keyword, or fewer than 100 characters
YieldingLines ==
    {i \in ConsideredLines :
        KeywordEnds(TrimmedLines[i]) # {} \/ Len(TrimmedLines[i]) < 100}

\* C22: default extraction scans the lines from the last to the first, passing
\* over blank lines, '#' lines and lines of 100 or more characters without a
\* keyword; the first line it stops at, when it has no keyword, is returned as
\* it is, and when it stops at no line the whole trimmed raw_text is returned.
C22_DefaultScan ==
    (FormatReturned /\ DefaultApplies) =>
        IF YieldingLines = {} THEN answer = strip(response)
        ELSE LET line == TrimmedLines[CHOOSE i \in YieldingLines :
                                          \A j \in YieldingLines : j <= i]
             IN KeywordEnds(line) = {} => answer = line

\* C22 witness: the last line has 100 characters and is passed over, the line
\* before it has 99 and is returned
C22_Witness ==
    /\ FormatReturned /\ answer_format = "minimal"
    /\ response = DigitRun(99) \o "\n" \o DigitRun(100)
    /\ answer = DigitRun(99)

\* C23: format_answer_for_livebench never raises and returns a string, for
\* every response and answer_format.
C23_FormatIsTotal ==
    /\ fpc # "raised"
    /\ FormatReturned => answer \in STRING

\* C23 witness: a response made of one '#' line, with an aime format that
\* finds no number: no line is considered and the trimmed text comes back
C23_Witness ==
    /\ FormatReturned /\ answer_format = "aime_format"
    /\ response = "# Final" /\ answer = "# Final"

----------------------------------------------------------------------------
(* Properties of concurrent calls *)

RECURSIVE AloneSample(_, _, _)
\* the sample of n records a call makes when no other call draws in between,
\* the generator being in state r at its first draw
AloneSample(r, sel, n) ==
    IF Len(sel) >= n THEN sel
    ELSE AloneSample((r + 1) % RngPeriod, Append(sel, DrawFrom(r, sel)), n)

\* C24: build_prompt, select_examples and format_answer_for_livebench write no
\* shared state (fragment library, example pool, the process's random
\* generator), and in every interleaving each select_examples call returns
\* what it returns when it runs alone from the state it started in.
C24_ConcurrentCallsShareNothing ==
    /\ [][rng' = rng /\ dataset' = dataset /\ library_writes' = library_writes]_vars
    /\ [](\A t \in Threads :
            (calls[t].pc = "done" /\ calls[t].fn = "select_examples") =>
                calls[t].selected =
                    AloneSample(calls[t].seen, <<>>, Min(calls[t].k, Len(dataset))))

----------------------------------------------------------------------------
(* solve_livebench_math: properties *)

\* a call of solve_livebench_math has built its conversation
Solved == spc \in {"done", "raised"}

\* where the example turns start in the conversation
TurnsStart == IF build_prompt(eff) # "" THEN 2 ELSE 1

\* C25: the conversation is a system message (first, and only when the
\* rendered prompt is not empty), then for each selected example in
\* selection order one user turn immediately followed by one assistant
\* turn, then the problem as the last user message; every assistant message
\* is directly preceded by a user message; few_shot_k <= 0 gives no example
\* turns
C25_ConversationShape ==
    Solved =>
        /\ \A i \in DOMAIN messages : messages[i].role = "system" => i = 1
        /\ (messages[1].role = "system") <=> (build_prompt(eff) # "")
        /\ messages[1].role = "system" => messages[1].content = build_prompt(eff)
        /\ messages[Len(messages)] = Message("user", Problem)
        /\ Len(messages) = TurnsStart + 2 * Len(few_shot_examples)
        /\ \A n \in DOMAIN few_shot_examples :
              /\ messages[TurnsStart + 2 * (n - 1)].role = "user"
              /\ messages[TurnsStart + 2 * (n - 1) + 1].role = "assistant"
        /\ \A i \in DOMAIN messages :
              messages[i].role = "assistant" => i > 1 /\ messages[i - 1].role = "user"
        /\ sparams.few_shot_k <= 0 => Len(messages) = TurnsStart

\* the preset the call named, when it is one of the presets
KnownPreset ==
    sparams.preset_template # None /\ sparams.preset_template[1] \in DOMAIN PresetTemplates

\* C26: with a known preset every parameter the preset defines has the
\* preset's value and every other parameter the caller's; with an empty,
\* None or unknown preset_template (such as 'none') no parameter changes,
\* and the call does not raise for it (it raises only on an empty reply)
C26_PresetOverridesItsParameters ==
    Solved =>
        /\ IF KnownPreset
           THEN LET preset == PresetTemplates[sparams.preset_template[1]]
                IN /\ \A p \in DOMAIN preset : p \in DOMAIN eff /\ eff[p] = preset[p]
                   /\ \A p \in DOMAIN eff \ DOMAIN preset : eff[p] = sparams.args[p]
           ELSE eff = sparams.args
        /\ spc = "raised" <=> content = ""

\* the preset's value replaced a different value of the caller, and a
\* parameter outside the preset kept the caller's
C26_Witness ==
    /\ spc = "done"
    /\ sparams.preset_template = Some("competition_solver")
    /\ sparams.args.verification_style = "thorough" /\ eff.verification_style = "basic"
    /\ sparams.args.answer_format = "latex" /\ eff.answer_format = "competition"
    /\ eff.notation_style = UnknownKey

\* the preset_template 'none' left the caller's parameters alone
C26_WitnessNone ==
    /\ spc = "done" /\ sparams.preset_template = Some("none")
    /\ eff = sparams.args /\ eff.answer_format = "boxed"

\* the answer_format values of the parameter schema
SchemaAnswerFormats ==
    {"minimal", "boxed", "explained", "step_numbered", "latex", "competition"}

\* C27: with an answer_format of the schema the answer is the default
\* extraction of the reply: the format the extraction sees names none of
\* AMC, AIME and proof
C27_SchemaFormatsUseDefaultRule ==
    /\ SchemaAnswerFormats = DOMAIN answer_formats
    /\ (Solved /\ sparams.args.answer_format \in SchemaAnswerFormats) =>
          /\ \A branch \in {"amc", "aime", "proof"} :
                ~Contains(lower(eff.answer_format), branch)
          /\ spc = "done" => solved = DefaultExtraction(content)

\* the competition format, from the preset, on a reply where the AMC branch
\* would have answered "C"
C27_Witness ==
    /\ spc = "done" /\ sparams.args.answer_format = "minimal"
    /\ eff.answer_format = "competition"
    /\ content = "The answer is C" /\ solved = "The answer is C"

\* a format outside the schema does reach the AMC branch
C27_WitnessOutside ==
    /\ spc = "done" /\ sparams.args.answer_format = "amc_format"
    /\ content = "The answer is C" /\ solved = "C"

----------------------------------------------------------------------------
(* DatasetManager.sample_examples: properties *)

\* C28: sample_examples returns all examples when total is None or at least
\* the number of examples; otherwise, for 'sequential', 'random' and
\* 'stratified' and any difficulty labels, exactly total examples, none
\* twice
C28_SampleHasTotalExamples ==
    (dpc = "done" /\ sample_strategy \in {"sequential", "random", "stratified"}) =>
        IF total = None \/ total[1] >= Len(self_examples)
        THEN sampled = [j \in DOMAIN self_examples |-> j]
        ELSE total[1] >= 0 =>
                /\ Len(sampled) = total[1]
                /\ \A a, b \in DOMAIN sampled : a # b => sampled[a] # sampled[b]

----------------------------------------------------------------------------
(* run_optimization: properties *)

\* C29: when run_optimization has returned or let an exception out, the
\* temporary dataset file it created does not exist any more, on every
\* path
C29_DatasetFileDeleted ==
    cpc = "returned" => (dataset_file # None => dataset_file[1] \notin files)

\* C30: the max_trials given to the traigent.optimize decorator and the one
\* given to .optimize() are integers >= 1
C30_MaxTrialsAtLeastOne ==
    /\ decorator_max_trials # None =>
          decorator_max_trials[1] \in Int /\ decorator_max_trials[1] >= 1
    /\ optimize_max_trials # None =>
          optimize_max_trials[1] \in Int /\ optimize_max_trials[1] >= 1

====
